---- MODULE Spec2Model ----
(***************************************************************************)
(* Model of the lane-dodging game: the host component App (game state,     *)
(* input queue, start / game-over / score / lives callbacks) and the       *)
(* GameCanvas component (refs, effects, the per-frame update callback and  *)
(* handleHit).                                                             *)
(*                                                                         *)
(* Host state updates (setGameState) are queued by React and applied by a  *)
(* later render; the update callback reads the gameState of the render     *)
(* that created it.  gs is the rendered state, gsNext the state with the   *)
(* queued updates applied in order, dirty says that a render is due.       *)
(*                                                                         *)
(* Lengths are kept exact as integers: difficulty is stored times 4000     *)
(* (diffNum = 4000 + rawScore), a rock's y and speed times 4000 * UScale.  *)
(***************************************************************************)
EXTENDS Integers, Sequences, FiniteSets, TLC

\* ---------------------------------------------------------------- constants
LANES == 4
PLAYER_Y_OFFSET == 120
InitialLives == 5
InitialLane == 1
HitWindow == 60
HitDistance == 50
BaseSpawnRate == 90
MinSpawnRate == 30
DifficultyDiv == 4000
SpawnY == 0 - 100
PruneMargin == 150
ScoreEvery == 10
\* the thresholds of the rock type, in units of 1 / TScale
TScale == 100
CrystalAbove == 80
JaggedAbove == 60
\* the events the initialization effect listens to for the first interaction
InteractEvents == {"click", "keydown", "touchstart"}

\* ------------------------------------------------------------------- bounds
\* Spec: frames a behaviour runs for, tokens its player pushes
MaxFrame == 280
MaxPushes == 1
\* SpecInput: the same
MaxInputFrame == 100
MaxInputPushes == 4
\* SpecGame: the same
MaxGameFrame == 575
MaxGamePushes == 2
\* SpecRestart: the same
MaxRestartFrame == 500
MaxRestartPushes == 2
\* SpecSpawn: the same
MaxSpawnFrame == 180
MaxSpawnPushes == 1
\* SpecLong: frames a behaviour runs for
MaxLongFrame == 8010
\* SpecSurface: frames a behaviour runs for, times the surface goes missing
MaxSurfaceFrame == 24
MaxLosses == 2
\* SpecAudio: frames a behaviour runs for, tokens pushed, interactions
MaxAudioFrame == 12
MaxAudioPushes == 2
MaxInteractions == 4
\* SpecTwoGames: frames a behaviour runs for, tokens pushed
MaxTwoGamesFrame == 890
MaxTwoGamesPushes == 2
\* SpecDebrief: frames a behaviour runs for, tokens pushed
MaxDebriefFrame == 480
MaxDebriefPushes == 2
\* tokens waiting in the input queue
MaxQueue == 2
\* ticks that may run between a setGameState call and the render that applies it
MaxStale == 1

\* ------------------------------------------------------------ input domains
\* canvas.height (window.innerHeight), fixed for a behaviour
CanvasHeight == 230
\* values of Math.floor(Math.random() * LANES) the behaviours draw
RockLanes == {1, 2}
GameRockLanes == {1}
\* values of Math.random() * 2 + 2 the behaviours draw, in units of 1 / UScale
UScale == 10
SpeedDraws == {20, 39}
RestartSpeedDraws == {39}
\* SpecLong: rocks that never meet a player who stays in the first lane
LongRockLanes == {3}
\* values of Math.random() the type of a rock is drawn from, in units of
\* 1 / TScale; the behaviours that do not look at the type draw one value
TypeDraws == {50, 70, 85}
PlainTypeDraws == {50}
\* the arguments of project the behaviours of SpecProject call it with
ProjectXs == {0, 100, 150, 200, 320, 400}
ProjectYs == {0, 50, 115, 230, 300, 480}
ProjectWidths == {200, 300, 400}
ProjectHeights == {230, 300, 480}
\* tokens the host's handlers push
Tokens == {"left", "right"}
\* inputQueue is a string[]: SpecInput also feeds a token that is no direction
AnyTokens == Tokens \cup {"up"}

YScale == DifficultyDiv * UScale
PlayerY == (CanvasHeight - PLAYER_Y_OFFSET) * YScale

VARIABLES
    gs,             \* App: rendered gameState
    gsNext,         \* App: gameState with the queued setGameState calls applied
    dirty,          \* App: a setGameState call is queued, a render is due
    inputQueue,     \* App: inputQueue.current
    player,         \* GameCanvas: playerRef.current (lane, hitTimer, isHit)
    rocks,          \* GameCanvas: rocksRef.current
    frameCount,     \* GameCanvas: frameCountRef.current
    score,          \* GameCanvas: scoreRef.current (raw score)
    diffNum,        \* GameCanvas: difficultyRef.current * 4000
    lastSpawnFrame, \* GameCanvas: lastSpawnFrameRef.current
    wasPlaying,     \* GameCanvas: wasPlayingRef.current
    wasGameOver,    \* GameCanvas: wasGameOverRef.current
    pending,        \* animation-frame requests not yet run, oldest first,
                    \* each the closure (isPlaying, isGameOver, lives) of its update
    reqIdx,         \* index in pending of the request requestRef.current names, or 0
    stale,          \* ticks run since a render became due
    pushes,         \* tokens pushed so far
    surface,        \* GameCanvas: "ok", or what is missing: canvasRef.current
                    \* ("noCanvas") or its 2d context ("noContext")
    audioCtx,       \* GameCanvas: audioCtxRef.current is set
    listeners,      \* window: the events handleInteract is registered for
    made,           \* history: AudioContext objects constructed
    budget,         \* surface losses and interactions so far
    effectsDue,     \* React: a render is committed, its effects have not run yet
    shown,          \* React: the gameState of the last render whose effects ran
    overlay,        \* GameOverlay: debrief, isLoadingDebrief and the promises of
                    \* generateMissionDebrief not yet resolved (their scores)
    proj,           \* the last call of project: its arguments and its result
    debriefCalls,   \* history: generateMissionDebrief calls since the overlay
                    \* last saw a game that is not over
    lastDebrief,    \* history: the last generateMissionDebrief call resolved
    maxFinal,       \* history: the largest finalScore passed to onGameOver
    used,           \* history: what the last Running tick computed and drew
    started,        \* history: the start command no Running tick has followed yet
    winLives,       \* history: the host's lives when the last hit tick began
    overCalls,      \* history: onGameOver invocations since the last start command
    seen,           \* history: tokens at the head of the queue that were in the
                    \* queue when a Running tick began
    obs             \* history: what the last step did

vars == <<gs, gsNext, dirty, inputQueue, player, rocks, frameCount, score,
          diffNum, lastSpawnFrame, wasPlaying, wasGameOver, pending, reqIdx,
          stale, pushes, surface, audioCtx, listeners, made, budget, used,
          effectsDue, shown, overlay, proj, debriefCalls, lastDebrief, maxFinal,
          started, winLives, overCalls, seen, obs>>

canvasRefs == <<player, rocks, frameCount, score, diffNum, lastSpawnFrame>>

audioRefs == <<audioCtx, listeners, made>>

\* what the loop and the host's handlers leave alone
apart == <<effectsDue, shown, overlay, proj, debriefCalls, lastDebrief>>

\* ------------------------------------------------------------------ helpers
Max(a, b) == IF a >= b THEN a ELSE b
Min(a, b) == IF a <= b THEN a ELSE b
Abs(a) == IF a >= 0 THEN a ELSE 0 - a
\* Math.floor(a / b) for a >= 0, b > 0
Floor(a, b) == a \div b

Closure(g) == [isPlaying |-> g.isPlaying, isGameOver |-> g.isGameOver, lives |-> g.lives]

NoClosure == [isPlaying |-> FALSE, isGameOver |-> FALSE, lives |-> 0]

Call(fn, arg) == [fn |-> fn, arg |-> arg]

\* the state a step began in, as far as the properties compare against it
Snapshot == [lane |-> player.lane, hitTimer |-> player.hitTimer, isHit |-> player.isHit,
             rocks |-> rocks, frameCount |-> frameCount, score |-> score,
             diffNum |-> diffNum, lastSpawnFrame |-> lastSpawnFrame,
             queue |-> inputQueue, seen |-> seen, overCalls |-> overCalls,
             host |-> gs, hostNext |-> gsNext]

\* op: the step; calls: the tones and host callbacks it invoked, in order;
\* pre: Snapshot when it began; cl: the closure of the update it ran;
\* first: the start command it is the first Running tick after
Obs(op, calls, pre, cl, first) ==
    [op |-> op, calls |-> calls, pre |-> pre, cl |-> cl, first |-> first]

\* spawnRate: the spawn interval of the tick; spawned: rocks it pushed;
\* u, t1, t2: the draws of the speed and of the type; tones: tones started
Use(spawnRate, spawned, u, t1, t2, tones) ==
    [spawnRate |-> spawnRate, spawned |-> spawned, u |-> u, t1 |-> t1, t2 |-> t2,
     tones |-> tones]

NoUse == Use(0, 0, 0, 0, 0, 0)

\* a MissionDebrief, or what else generateMissionDebrief resolved with
Debrief(kind, message, fact) == [kind |-> kind, message |-> message, fact |-> fact]

\* useState<MissionDebrief | null>(null)
NoDebrief == Debrief("null", "", "")

NoProjection == [called |-> FALSE, x |-> 0, y |-> 0, w |-> 0, h |-> 0,
                 xNum |-> 0, scaleNum |-> 0, den |-> 0, screenY |-> 0]

\* ----------------------------------------------------------- host callbacks
\* App.updateScore, App.updateLives, App.gameOver as updaters of the queued state
updateScore(g, s) == [g EXCEPT !.score = s]
updateLives(g, n) == [g EXCEPT !.lives = n]

\* (faulty variant) the high score is the score of the last game
gameOverLast(g, finalScore) ==
    [g EXCEPT !.isGameOver = TRUE, !.highScore = finalScore]

gameOver(g, finalScore) ==
    [g EXCEPT !.isGameOver = TRUE, !.highScore = Max(g.highScore, finalScore)]

ApplyCall(g, c) ==
    IF c.fn = "setScore" THEN updateScore(g, c.arg)
    ELSE IF c.fn = "updateLives" THEN updateLives(g, c.arg)
    ELSE IF c.fn = "onGameOver" THEN gameOver(g, c.arg)
    ELSE g

RECURSIVE ApplyCalls(_, _)
ApplyCalls(g, cs) ==
    IF cs = <<>> THEN g ELSE ApplyCalls(ApplyCall(g, Head(cs)), Tail(cs))

IsHostCall(c) == c.fn \in {"setScore", "updateLives", "onGameOver"}

IsGameOverCall(c) == c.fn = "onGameOver"

\* the largest of m and the arguments of the calls cs
RECURSIVE MaxOf(_, _)
MaxOf(m, cs) == IF cs = <<>> THEN m ELSE MaxOf(Max(m, Head(cs).arg), Tail(cs))

\* --------------------------------------------------------------------- Init
Init ==
    /\ gs = [isPlaying |-> FALSE, isGameOver |-> FALSE, score |-> 0,
             highScore |-> 0, lives |-> InitialLives]
    /\ gsNext = gs
    /\ dirty = FALSE
    /\ inputQueue = <<>>
    /\ player = [lane |-> InitialLane, hitTimer |-> 0, isHit |-> FALSE]
    /\ rocks = <<>>
    /\ frameCount = 0
    /\ score = 0
    /\ diffNum = DifficultyDiv
    /\ lastSpawnFrame = 0
    /\ wasPlaying = FALSE
    /\ wasGameOver = FALSE
    /\ pending = <<Closure(gs)>>
    /\ reqIdx = 1
    /\ stale = 0
    /\ pushes = 0
    /\ surface = "ok"
    /\ audioCtx = FALSE
    /\ listeners = InteractEvents
    /\ made = 0
    /\ budget = [losses |-> 0, interactions |-> 0]
    /\ used = NoUse
    /\ effectsDue = FALSE
    /\ shown = gs
    /\ overlay = [debrief |-> NoDebrief, loading |-> FALSE, inflight |-> <<>>]
    /\ proj = NoProjection
    /\ debriefCalls = 0
    /\ lastDebrief = [score |-> 0, hasKey |-> FALSE, outcome |-> "none",
                      result |-> NoDebrief]
    /\ maxFinal = 0
    /\ started = "none"
    /\ winLives = InitialLives
    /\ overCalls = 0
    /\ seen = 0
    /\ obs = Obs("mount", <<>>, Snapshot, NoClosure, "none")

\* ------------------------------------------------------------ update: steps
\* (faulty variant) no range check on the lane
LaneAfterUnchecked(move, lane) ==
    IF move = "left" THEN lane - 1
    ELSE IF move = "right" THEN lane + 1
    ELSE lane

\* (faulty variant) every token that is not left moves right
LaneAfterElseRight(move, lane) ==
    IF move = "left" /\ lane > 0 THEN lane - 1
    ELSE IF lane < LANES - 1 THEN lane + 1
    ELSE lane

\* Process Input: the lane after one token
LaneAfter(move, lane) ==
    IF move = "left" /\ lane > 0 THEN lane - 1
    ELSE IF move = "right" /\ lane < LANES - 1 THEN lane + 1
    ELSE lane

\* (faulty variant) the interval is rounded to the nearest integer
SpawnRateRounded(dn) ==
    Max(MinSpawnRate, Floor(2 * BaseSpawnRate * DifficultyDiv + dn, 2 * dn))

\* spawnRate = Math.max(30, Math.floor(baseSpawnRate / difficultyRef.current))
SpawnRate(dn) == Max(MinSpawnRate, Floor(BaseSpawnRate * DifficultyDiv, dn))

\* (faulty variant) a spawn needs more frames than the interval
SpawnDueLater(fc, last, dn) == fc - last > SpawnRate(dn)

SpawnDue(fc, last, dn) == fc - last >= SpawnRate(dn)

\* type: Math.random() > 0.8 ? 'crystal' : Math.random() > 0.6 ? 'jagged' : 'round'
\* t1 and t2 are the two draws
RockType(t1, t2) ==
    IF t1 > CrystalAbove THEN "crystal"
    ELSE IF t2 > JaggedAbove THEN "jagged"
    ELSE "round"

NewRock(lane, u, dn, t1, t2) ==
    [lane |-> lane, y |-> SpawnY * YScale, speed |-> u * dn, type |-> RockType(t1, t2)]

\* (faulty variant) the raw score is published
PublishedRaw(sc) == sc

\* setScore(Math.floor(scoreRef.current / 10))
Published(sc) == Floor(sc, ScoreEvery)

\* (faulty variant) a rock stops once it has reached the player's line
AdvanceStalled(rs) ==
    [i \in 1..Len(rs) |->
        IF rs[i].y >= PlayerY THEN rs[i] ELSE [rs[i] EXCEPT !.y = @ + rs[i].speed]]

\* Update Rocks: rock.y += rock.speed
Advance(rs) == [i \in 1..Len(rs) |-> [rs[i] EXCEPT !.y = @ + rs[i].speed]]

\* (faulty variant) rocks are kept down to twice the margin
KeepsLonger(r) == r.y < (CanvasHeight + 2 * PruneMargin) * YScale

\* Remove old rocks: filter(rock => rock.y < canvas.height + 150)
Keeps(r) == r.y < (CanvasHeight + PruneMargin) * YScale
Prune(rs) == SelectSeq(rs, Keeps)

\* (faulty variant) isHit is never cleared
IsHitKept(hitTimer, isHit) == isHit

\* if (hitTimer > 0) { hitTimer--; isHit = false }
HitTimerAfter(hitTimer) == IF hitTimer > 0 THEN hitTimer - 1 ELSE 0
IsHitAfter(hitTimer, isHit) == IF hitTimer > 0 THEN FALSE ELSE isHit

\* (faulty variant) the collision test ignores the lane
CollidesAnyLane(r, lane) == Abs(r.y - PlayerY) < HitDistance * YScale

\* the collision test of one rock against the player
Collides(r, lane) == r.lane = lane /\ Abs(r.y - PlayerY) < HitDistance * YScale

RemoveAt(rs, i) == SubSeq(rs, 1, i - 1) \o SubSeq(rs, i + 1, Len(rs))

\* for (let i = rocks.length - 1; i >= 0; i--) if (...) handleHit(i)
\* (i here is the 1-based index); returns the rocks left and the number of
\* handleHit calls
RECURSIVE CollisionLoop(_, _, _, _)
CollisionLoop(rs, i, lane, hits) ==
    IF i = 0 THEN [rocks |-> rs, hits |-> hits]
    ELSE IF Collides(rs[i], lane)
         THEN CollisionLoop(RemoveAt(rs, i), i - 1, lane, hits + 1)
         ELSE CollisionLoop(rs, i - 1, lane, hits)

\* (faulty variant) the collision pass runs before the input is processed:
\* it tests the lane the tick began with
CollisionPassOldLane(rs, lane, hitTimer) ==
    IF hitTimer = 0 THEN CollisionLoop(rs, Len(rs), player.lane, 0)
    ELSE [rocks |-> rs, hits |-> 0]

\* the collision pass, entered only with hitTimer === 0
CollisionPass(rs, lane, hitTimer) ==
    IF hitTimer = 0 THEN CollisionLoop(rs, Len(rs), lane, 0)
    ELSE [rocks |-> rs, hits |-> 0]

\* (faulty variant) handleHit counts down from the lives of the first render
HitCallsFromInitial(cl, sc) ==
    LET newLives == InitialLives - 1
    IN  <<Call("hit", 0), Call("updateLives", newLives)>>
        \o (IF newLives <= 0 THEN <<Call("onGameOver", Floor(sc, ScoreEvery))>> ELSE <<>>)

\* (faulty variant) the game is over only when the lives fall below 0
HitCallsBelowZero(cl, sc) ==
    LET newLives == cl.lives - 1
    IN  <<Call("hit", 0), Call("updateLives", newLives)>>
        \o (IF newLives < 0 THEN <<Call("onGameOver", Floor(sc, ScoreEvery))>> ELSE <<>>)

\* handleHit: the calls one invocation makes, with the lives of the closure
HitCalls(cl, sc) ==
    LET newLives == cl.lives - 1
    IN  <<Call("hit", 0), Call("updateLives", newLives)>>
        \o (IF newLives <= 0 THEN <<Call("onGameOver", Floor(sc, ScoreEvery))>> ELSE <<>>)

RECURSIVE Repeat(_, _)
Repeat(cs, n) == IF n = 0 THEN <<>> ELSE cs \o Repeat(cs, n - 1)

\* (faulty variant) every handleHit invocation takes one more life than the one before
RECURSIVE HandleHitsFrom(_, _, _)
HandleHitsFrom(cl, sc, n) ==
    IF n = 0 THEN <<>>
    ELSE HitCalls(cl, sc) \o HandleHitsFrom([cl EXCEPT !.lives = @ - 1], sc, n - 1)

HandleHitsCounting(cl, sc, n) == HandleHitsFrom(cl, sc, n)

\* the calls of the n handleHit invocations of one collision pass: every one
\* reads gameState.lives of the same closure
HandleHits(cl, sc, n) == Repeat(HitCalls(cl, sc), n)

\* Process Input: the tones of one tick
MoveCalls(didMove) == IF didMove THEN <<Call("move", 0)>> ELSE <<>>

\* (faulty variant) pop() instead of shift()
Pop(q) == IF Len(q) > 0 THEN SubSeq(q, 1, Len(q) - 1) ELSE q

\* inputQueue.current.shift() when the queue is not empty
Shift(q) == IF Len(q) > 0 THEN Tail(q) ELSE q

NumCalls(calls, fn) == Cardinality({i \in 1..Len(calls) : calls[i].fn = fn})

IsTone(c) == c.fn \in {"move", "hit"}

\* playSound: the tones n calls start; none while audioCtxRef.current is not set
PlaySound(ctx, n) == IF ~ctx THEN 0 ELSE n

\* (faulty variant) initAudio constructs a context in every call
InitAudioAlways(ctx, supported) == IF supported THEN 1 ELSE 0

\* initAudio: the AudioContext objects one call constructs; supported says
\* that window.AudioContext or window.webkitAudioContext exists
InitAudio(ctx, supported) == IF ~ctx /\ supported THEN 1 ELSE 0

\* ------------------------------------------------------------------ actions
\* The animation-frame callback `update` whose closure is the oldest pending
\* request.  laneDraw, u, t1 and t2 are the random draws of a spawn, maxFrame
\* the frame the behaviour stops at.
update(laneDraw, u, t1, t2, maxFrame) ==
    /\ pending # <<>>
    /\ (dirty \/ effectsDue) => stale < MaxStale
    /\ LET cl == Head(pending)
           running == cl.isPlaying /\ ~cl.isGameOver
       IN  IF surface # "ok"
           THEN \* if (!canvasRef.current) return; ... if (!ctx) return;
                /\ pending' = Tail(pending)
                /\ reqIdx' = Max(reqIdx - 1, 0)
                /\ stale' = IF dirty \/ effectsDue THEN stale + 1 ELSE 0
                /\ obs' = Obs("skipTick", <<>>, Snapshot, cl, "none")
                /\ UNCHANGED <<gs, gsNext, dirty, inputQueue, canvasRefs, wasPlaying,
                               wasGameOver, pushes, surface, audioRefs, budget, used,
                               apart, maxFinal, started, winLives, overCalls, seen>>
           ELSE IF ~running
           THEN \* if (!gameState.isPlaying || gameState.isGameOver) { draw; return }
                /\ pending' = Tail(pending)
                /\ reqIdx' = Max(reqIdx - 1, 0)
                /\ stale' = IF dirty \/ effectsDue THEN stale + 1 ELSE 0
                /\ obs' = Obs("idleTick", <<>>, Snapshot, cl, "none")
                /\ UNCHANGED <<gs, gsNext, dirty, inputQueue, canvasRefs, wasPlaying,
                               wasGameOver, pushes, surface, audioRefs, budget, used,
                               apart, maxFinal, started, winLives, overCalls, seen>>
           ELSE /\ frameCount < maxFrame
                /\ LET hasMove == Len(inputQueue) > 0
                       lane1 == IF hasMove THEN LaneAfter(Head(inputQueue), player.lane)
                                ELSE player.lane
                       didMove == lane1 # player.lane
                       fc == frameCount + 1
                       sc == score + 1
                       publish == fc % ScoreEvery = 0
                       dn == IF publish THEN DifficultyDiv + sc ELSE diffNum
                       spawn == SpawnDue(fc, lastSpawnFrame, dn)
                       rocks1 == IF spawn THEN Append(rocks, NewRock(laneDraw, u, dn, t1, t2))
                                 ELSE rocks
                       rocks3 == Prune(Advance(rocks1))
                       ht1 == HitTimerAfter(player.hitTimer)
                       isHit1 == IsHitAfter(player.hitTimer, player.isHit)
                       col == CollisionPass(rocks3, lane1, ht1)
                       calls == MoveCalls(didMove)
                                \o (IF publish THEN <<Call("setScore", Published(sc))>>
                                    ELSE <<>>)
                                \o HandleHits(cl, sc, col.hits)
                       hostCalls == SelectSeq(calls, IsHostCall)
                   IN  /\ inputQueue' = Shift(inputQueue)
                       /\ player' = [lane |-> lane1,
                                     hitTimer |-> IF col.hits > 0 THEN HitWindow ELSE ht1,
                                     isHit |-> IF col.hits > 0 THEN TRUE ELSE isHit1]
                       /\ frameCount' = fc
                       /\ score' = sc
                       /\ diffNum' = dn
                       /\ lastSpawnFrame' = IF spawn THEN fc ELSE lastSpawnFrame
                       /\ rocks' = col.rocks
                       /\ gsNext' = ApplyCalls(gsNext, hostCalls)
                       /\ dirty' = (dirty \/ hostCalls # <<>>)
                       /\ stale' = IF dirty \/ effectsDue THEN stale + 1 ELSE 0
                       \* requestRef.current = requestAnimationFrame(update)
                       /\ pending' = Append(Tail(pending), cl)
                       /\ reqIdx' = Len(pending)
                       /\ started' = "none"
                       /\ winLives' = IF col.hits > 0 THEN gsNext.lives ELSE winLives
                       /\ overCalls' = overCalls + NumCalls(calls, "onGameOver")
                       /\ seen' = Len(inputQueue')
                       /\ used' = IF spawn
                                  THEN Use(SpawnRate(dn), Len(rocks1) - Len(rocks), u, t1, t2,
                                           PlaySound(audioCtx, Len(SelectSeq(calls, IsTone))))
                                  ELSE Use(SpawnRate(dn), 0, 0, 0, 0,
                                           PlaySound(audioCtx, Len(SelectSeq(calls, IsTone))))
                       /\ obs' = Obs("tick", calls, Snapshot, cl, started)
                       /\ maxFinal' = MaxOf(maxFinal, SelectSeq(calls, IsGameOverCall))
                       /\ UNCHANGED <<gs, wasPlaying, wasGameOver, pushes, surface,
                                      audioRefs, budget, apart>>

\* (faulty variant) the effect's cleanup cancels nothing
CancelNothing(reqs, idx) == reqs

\* cancelAnimationFrame(requestRef.current): the requests left
CancelFrame(reqs, idx) == IF idx > 0 THEN RemoveAt(reqs, idx) ELSE reqs

\* the dependencies [gameState.isGameOver, gameState.score] of the debrief
\* effect changed between two renders
DebriefDepsChanged(prev, g) ==
    g.isGameOver # prev.isGameOver \/ g.score # prev.score

\* The effects of one render, in the order of their declaration: the
\* initialization, score reset and animation-frame effects of GameCanvas and
\* the debrief effect of GameOverlay.  prev is the gameState of the render
\* before, g the rendered gameState, queued the host state with the updates
\* queued since, due says that a render is due for them, op names the step.
RunEffects(prev, g, queued, due, op) ==
    LET playingChanged == g.isPlaying # prev.isPlaying
        isRestarting == wasGameOver /\ ~g.isGameOver /\ g.isPlaying
        isNewGame == ~wasPlaying /\ g.isPlaying /\ ~g.isGameOver
        reset == isRestarting \/ isNewGame
        kept == CancelFrame(pending, reqIdx)
        debriefRuns == DebriefDepsChanged(prev, g)
        calls == (IF reset THEN <<Call("setScore", 0)>> ELSE <<>>)
                 \o (IF debriefRuns /\ g.isGameOver
                     THEN <<Call("generateMissionDebrief", g.score)>> ELSE <<>>)
    IN  \* initialization effect, deps [gameState.isPlaying, initAudio]: the
        \* cleanup of its last run, then if (!canvasRef.current) return
        /\ IF playingChanged /\ surface # "noCanvas"
           THEN /\ player' = [lane |-> InitialLane, hitTimer |-> 0, isHit |-> FALSE]
                /\ rocks' = <<>>
                /\ frameCount' = 0
                /\ diffNum' = DifficultyDiv
                /\ lastSpawnFrame' = 0
                /\ listeners' = InteractEvents
           ELSE /\ listeners' = IF playingChanged THEN {} ELSE listeners
                /\ UNCHANGED <<player, rocks, frameCount, diffNum, lastSpawnFrame>>
        \* score reset effect (setScore is a new function in every render)
        /\ score' = IF playingChanged \/ reset THEN 0 ELSE score
        /\ gsNext' = IF reset THEN updateScore(queued, 0) ELSE queued
        /\ dirty' = (due \/ reset)
        /\ wasGameOver' = g.isGameOver
        /\ wasPlaying' = IF g.isPlaying /\ ~g.isGameOver THEN TRUE
                         ELSE IF ~g.isPlaying THEN FALSE
                         ELSE (wasPlaying \/ reset)
        \* animation-frame effect: cleanup cancels requestRef.current, then requests
        /\ pending' = Append(kept, Closure(g))
        /\ reqIdx' = Len(kept) + 1
        \* debrief effect of GameOverlay
        /\ overlay' = IF ~debriefRuns THEN overlay
                      ELSE IF g.isGameOver
                      THEN [overlay EXCEPT !.loading = TRUE,
                                           !.inflight = Append(@, g.score)]
                      ELSE [overlay EXCEPT !.debrief = NoDebrief]
        /\ debriefCalls' = IF ~debriefRuns THEN debriefCalls
                           ELSE IF g.isGameOver THEN debriefCalls + 1
                           ELSE 0
        /\ shown' = g
        /\ effectsDue' = FALSE
        /\ stale' = 0
        /\ obs' = Obs(op, calls, Snapshot, NoClosure, "none")
        /\ UNCHANGED <<inputQueue, pushes, surface, audioCtx, made, budget, used,
                       proj, lastDebrief, maxFinal, started, winLives, overCalls, seen>>

\* React renders App with the queued state and runs the effects of that
\* render before anything else happens
Render ==
    /\ dirty /\ ~effectsDue
    /\ gs' = gsNext
    /\ RunEffects(shown, gsNext, gsNext, FALSE, "render")

\* React renders App with the queued state and commits; the effects of the
\* render are left for later (they are passive effects)
Commit ==
    /\ dirty /\ ~effectsDue
    /\ gs' = gsNext
    /\ dirty' = FALSE
    /\ effectsDue' = TRUE
    /\ obs' = Obs("commit", <<>>, Snapshot, NoClosure, "none")
    /\ UNCHANGED <<gsNext, inputQueue, canvasRefs, wasPlaying, wasGameOver, pending,
                   reqIdx, stale, pushes, surface, audioRefs, budget, used, shown,
                   overlay, proj, debriefCalls, lastDebrief, maxFinal, started,
                   winLives, overCalls, seen>>

\* React runs the effects of the last committed render
Effects ==
    /\ effectsDue
    /\ UNCHANGED gs
    /\ RunEffects(shown, gs, gsNext, dirty, "effects")

\* (faulty variant) the three lives the overlay announces
startGameThreeLives ==
    /\ (~gs.isPlaying /\ ~gs.isGameOver) \/ gs.isGameOver
    /\ inputQueue' = <<>>
    /\ gsNext' = [isPlaying |-> TRUE, isGameOver |-> FALSE, score |-> 0,
                  highScore |-> gs.highScore, lives |-> 3]
    /\ dirty' = TRUE
    /\ stale' = IF dirty THEN stale ELSE 0
    /\ started' = IF gs.isGameOver THEN "restart" ELSE "start"
    /\ overCalls' = 0
    /\ seen' = 0
    /\ obs' = Obs("startGame", <<>>, Snapshot, NoClosure, "none")
    /\ UNCHANGED <<gs, canvasRefs, wasPlaying, wasGameOver, pending, reqIdx, pushes,
                   surface, audioRefs, budget, used, apart, maxFinal, winLives>>

\* App.startGame, wired to the Start and Try Again buttons of the overlay
startGame ==
    /\ (~gs.isPlaying /\ ~gs.isGameOver) \/ gs.isGameOver
    /\ inputQueue' = <<>>
    /\ gsNext' = [isPlaying |-> TRUE, isGameOver |-> FALSE, score |-> 0,
                  highScore |-> gs.highScore, lives |-> InitialLives]
    /\ dirty' = TRUE
    /\ stale' = IF dirty THEN stale ELSE 0
    /\ started' = IF gs.isGameOver THEN "restart" ELSE "start"
    /\ overCalls' = 0
    /\ seen' = 0
    /\ obs' = Obs("startGame", <<>>, Snapshot, NoClosure, "none")
    /\ UNCHANGED <<gs, canvasRefs, wasPlaying, wasGameOver, pending, reqIdx, pushes,
                   surface, audioRefs, budget, used, apart, maxFinal, winLives>>

\* handleKeyDown / handleTouchLeft / handleTouchRight: push one token;
\* maxPushes is the number of tokens the behaviour pushes at most
pushInput(tok, maxPushes) ==
    /\ gs.isPlaying /\ ~gs.isGameOver
    /\ Len(inputQueue) < MaxQueue
    /\ pushes < maxPushes
    /\ pushes' = pushes + 1
    /\ inputQueue' = Append(inputQueue, tok)
    /\ obs' = Obs("push", <<>>, Snapshot, NoClosure, "none")
    /\ UNCHANGED <<gs, gsNext, dirty, canvasRefs, wasPlaying, wasGameOver,
                   pending, reqIdx, stale, surface, audioRefs, budget, used,
                   apart, maxFinal, started, winLives, overCalls, seen>>

\* handleInteract, the listener the initialization effect registers once for
\* each of click, keydown and touchstart: initAudio().  supported says that
\* the window has an AudioContext constructor.
interact(ev, supported) ==
    /\ ev \in listeners
    /\ budget.interactions < MaxInteractions
    /\ budget' = [budget EXCEPT !.interactions = @ + 1]
    /\ listeners' = listeners \ {ev}
    /\ made' = made + InitAudio(audioCtx, supported)
    /\ audioCtx' = (audioCtx \/ InitAudio(audioCtx, supported) > 0)
    /\ obs' = Obs("interact", <<>>, Snapshot, NoClosure, "none")
    /\ UNCHANGED <<gs, gsNext, dirty, inputQueue, canvasRefs, wasPlaying, wasGameOver,
                   pending, reqIdx, stale, pushes, surface, used, apart, maxFinal,
                   started, winLives, overCalls, seen>>

\* the fixed pair of the missing key and of the catch block
StaticFallback ==
    Debrief("pair", "Mission Complete!",
            "Did you know asteroids are leftover rocks from when planets formed?")

\* the pair returned for a response without text
EmptyFallback == Debrief("pair", "Good job!", "Space is huge!")

\* JSON.parse(text) as MissionDebrief, for a text that is a message/fact pair
\* and for a text that is JSON of another shape (the cast checks nothing)
Generated == Debrief("pair", "generated", "generated")
NotAPair == Debrief("other", "", "")

\* what a call of the service may do
Outcomes == {"throws", "empty", "badJson", "otherJson", "pair"}

\* generateMissionDebrief: what the promise resolves with.  hasKey says that
\* an API key is configured; outcome is what generateContent does: it throws,
\* or its response has no text, a text that is no JSON, JSON of another shape,
\* or a message/fact pair.
GenerateMissionDebrief(shownScore, hasKey, outcome) ==
    IF ~hasKey THEN StaticFallback
    ELSE IF outcome = "throws" THEN StaticFallback
    ELSE IF outcome = "empty" THEN EmptyFallback
    ELSE IF outcome = "badJson" THEN StaticFallback
    ELSE IF outcome = "otherJson" THEN NotAPair
    ELSE Generated

\* the promise of the i-th pending generateMissionDebrief call resolves:
\* setDebrief(data); setIsLoadingDebrief(false)
resolveDebrief(i, hasKey, outcome) ==
    /\ i \in 1..Len(overlay.inflight)
    /\ LET result == GenerateMissionDebrief(overlay.inflight[i], hasKey, outcome)
       IN  /\ overlay' = [debrief |-> result, loading |-> FALSE,
                          inflight |-> RemoveAt(overlay.inflight, i)]
           /\ lastDebrief' = [score |-> overlay.inflight[i], hasKey |-> hasKey,
                              outcome |-> outcome, result |-> result]
    /\ obs' = Obs("resolveDebrief", <<>>, Snapshot, NoClosure, "none")
    /\ UNCHANGED <<gs, gsNext, dirty, inputQueue, canvasRefs, wasPlaying, wasGameOver,
                   pending, reqIdx, stale, pushes, surface, audioRefs, budget, used,
                   effectsDue, shown, proj, debriefCalls, maxFinal, started, winLives,
                   overCalls, seen>>

\* (faulty variant) the scale runs from 0 at the horizon to 1 at the bottom
ProjectFromZero(x, y, w, h) ==
    [called |-> TRUE, x |-> x, y |-> y, w |-> w, h |-> h,
     scaleNum |-> 10 * y, den |-> 10 * h,
     xNum |-> w * (10 * h) + (2 * x - w) * (10 * y),
     screenY |-> y]

\* project(x, y, canvasWidth, canvasHeight), for h > 0: the scale is
\* scaleNum / den and the projected x is xNum / (2 * den)
Project(x, y, w, h) ==
    [called |-> TRUE, x |-> x, y |-> y, w |-> w, h |-> h,
     scaleNum |-> 4 * h + 6 * y, den |-> 10 * h,
     xNum |-> w * (10 * h) + (2 * x - w) * (4 * h + 6 * y),
     screenY |-> y]

\* one call of project by draw
projectCall(x, y, w, h) ==
    /\ proj' = Project(x, y, w, h)
    /\ UNCHANGED <<gs, gsNext, dirty, inputQueue, canvasRefs, wasPlaying, wasGameOver,
                   pending, reqIdx, stale, pushes, surface, audioRefs, budget, used,
                   effectsDue, shown, overlay, debriefCalls, lastDebrief, maxFinal,
                   started, winLives, overCalls, seen, obs>>

\* the canvas element or its 2d context goes missing (kind says which)
loseSurface(kind) ==
    /\ surface = "ok"
    /\ budget.losses < MaxLosses
    /\ budget' = [budget EXCEPT !.losses = @ + 1]
    /\ surface' = kind
    /\ obs' = Obs("loseSurface", <<>>, Snapshot, NoClosure, "none")
    /\ UNCHANGED <<gs, gsNext, dirty, inputQueue, canvasRefs, wasPlaying, wasGameOver,
                   pending, reqIdx, stale, pushes, audioRefs, used, apart, maxFinal,
                   started, winLives, overCalls, seen>>

\* the canvas element and its 2d context are available again
restoreSurface ==
    /\ surface # "ok"
    /\ surface' = "ok"
    /\ obs' = Obs("restoreSurface", <<>>, Snapshot, NoClosure, "none")
    /\ UNCHANGED <<gs, gsNext, dirty, inputQueue, canvasRefs, wasPlaying, wasGameOver,
                   pending, reqIdx, stale, pushes, audioRefs, budget, used, apart,
                   maxFinal, started, winLives, overCalls, seen>>

\* ----------------------------------------------------------- specifications
\* the first hits of a game: rocks in two lanes, the player pushing one token
Next ==
    \/ \E l \in RockLanes, u \in SpeedDraws, t \in PlainTypeDraws :
           update(l, u, t, t, MaxFrame)
    \/ Render
    \/ startGame
    \/ \E tok \in Tokens : pushInput(tok, MaxPushes)

Spec == Init /\ [][Next]_vars

\* the first frames of a game, the player pushing any tokens
NextInput ==
    \/ \E l \in RockLanes, u \in SpeedDraws, t \in PlainTypeDraws :
           update(l, u, t, t, MaxInputFrame)
    \/ Render
    \/ startGame
    \/ \E tok \in AnyTokens : pushInput(tok, MaxInputPushes)

SpecInput == Init /\ [][NextInput]_vars

\* a whole game up to a last tick in which two rocks are hit: rocks of two
\* speeds in the player's first lane
NextGame ==
    \/ \E l \in GameRockLanes, u \in SpeedDraws, t \in PlainTypeDraws :
           update(l, u, t, t, MaxGameFrame)
    \/ Render
    \/ startGame
    \/ \E tok \in Tokens : pushInput(tok, MaxGamePushes)

SpecGame == Init /\ [][NextGame]_vars

\* a whole game, its game-over and its restart: rocks of one speed in the
\* player's first lane
NextRestart ==
    \/ \E l \in GameRockLanes, u \in RestartSpeedDraws, t \in PlainTypeDraws :
           update(l, u, t, t, MaxRestartFrame)
    \/ Render
    \/ startGame
    \/ \E tok \in Tokens : pushInput(tok, MaxRestartPushes)

SpecRestart == Init /\ [][NextRestart]_vars

\* the first spawns of a game with every outcome of the two type draws
NextSpawn ==
    \/ \E l \in RockLanes, u \in SpeedDraws, t1 \in TypeDraws, t2 \in TypeDraws :
           update(l, u, t1, t2, MaxSpawnFrame)
    \/ Render
    \/ startGame
    \/ \E tok \in Tokens : pushInput(tok, MaxSpawnPushes)

SpecSpawn == Init /\ [][NextSpawn]_vars

\* a long game of a player who is never hit, up to the raw scores of the shortest spawn interval
NextLong ==
    \/ \E l \in LongRockLanes, u \in RestartSpeedDraws, t \in PlainTypeDraws :
           update(l, u, t, t, MaxLongFrame)
    \/ Render
    \/ startGame

SpecLong == Init /\ [][NextLong]_vars

\* the first frames of a game whose surface goes missing and comes back
NextSurface ==
    \/ \E l \in RockLanes, u \in SpeedDraws, t \in PlainTypeDraws :
           update(l, u, t, t, MaxSurfaceFrame)
    \/ Render
    \/ startGame
    \/ \E kind \in {"noCanvas", "noContext"} : loseSurface(kind)
    \/ restoreSurface

SpecSurface == Init /\ [][NextSurface]_vars

\* the first frames of a game with the interactions that initialize the audio
NextAudio ==
    \/ \E l \in RockLanes, u \in SpeedDraws, t \in PlainTypeDraws :
           update(l, u, t, t, MaxAudioFrame)
    \/ Render
    \/ startGame
    \/ \E tok \in Tokens : pushInput(tok, MaxAudioPushes)
    \/ \E ev \in InteractEvents, supported \in BOOLEAN : interact(ev, supported)

SpecAudio == Init /\ [][NextAudio]_vars

\* a whole game and its game-over screen, with renders whose effects run
\* later than their commit and with every outcome of the debrief service
NextDebrief ==
    \/ \E l \in GameRockLanes, u \in RestartSpeedDraws, t \in PlainTypeDraws :
           update(l, u, t, t, MaxDebriefFrame)
    \/ Commit
    \/ Effects
    \/ startGame
    \/ \E tok \in Tokens : pushInput(tok, MaxDebriefPushes)
    \/ \E i \in 1..Len(overlay.inflight), hasKey \in BOOLEAN, outcome \in Outcomes :
           resolveDebrief(i, hasKey, outcome)

SpecDebrief == Init /\ [][NextDebrief]_vars

\* two whole games with the restart between them
NextTwoGames ==
    \/ \E l \in GameRockLanes, u \in RestartSpeedDraws, t \in PlainTypeDraws :
           update(l, u, t, t, MaxTwoGamesFrame)
    \/ Render
    \/ startGame
    \/ \E tok \in Tokens : pushInput(tok, MaxTwoGamesPushes)

SpecTwoGames == Init /\ [][NextTwoGames]_vars

\* calls of project over a grid of points and canvas sizes
NextProject ==
    \E x \in ProjectXs, y \in ProjectYs, w \in ProjectWidths, h \in ProjectHeights :
        projectCall(x, y, w, h)

SpecProject == Init /\ [][NextProject]_vars

\* ------------------------------------------------------------------- claims
IsTick == obs.op = "tick"
Consumed == IsTick /\ obs.pre.queue # <<>>
Token == Head(obs.pre.queue)
Played(fn) == NumCalls(obs.calls, fn) > 0

\* C1: in every reachable state the player's lane is one of 0..LANES-1,
\* whatever tokens have been pushed and consumed.
C1_LaneInRange == player.lane \in 0..(LANES - 1)

\* a left token was consumed at lane 0 and the lane is still 0
C1_Witness ==
    /\ Consumed /\ Token = "left"
    /\ obs.pre.lane = 0 /\ player.lane = 0

\* C9: a left token at lane 0, a right token at lane LANES-1 and a token that
\* is neither are consumed and dropped (lane unchanged, no move tone); the
\* move tone is played in a tick exactly if the lane changed in it, and the
\* lane changes by exactly 1.
C9_DropOrMoveByOne ==
    IsTick =>
        /\ (Consumed /\ Token = "left" /\ obs.pre.lane = 0) =>
               (player.lane = obs.pre.lane /\ inputQueue = Tail(obs.pre.queue))
        /\ (Consumed /\ Token = "right" /\ obs.pre.lane = LANES - 1) =>
               (player.lane = obs.pre.lane /\ inputQueue = Tail(obs.pre.queue))
        /\ (Consumed /\ Token \notin {"left", "right"}) =>
               (player.lane = obs.pre.lane /\ inputQueue = Tail(obs.pre.queue))
        /\ Played("move") <=> player.lane # obs.pre.lane
        /\ NumCalls(obs.calls, "move") <= 1
        /\ player.lane # obs.pre.lane => Abs(player.lane - obs.pre.lane) = 1
        /\ ~Consumed => player.lane = obs.pre.lane

\* a token that is no direction was consumed, and so was a right token at the
\* last lane before it
C9_Witness ==
    /\ Consumed /\ Token = "up"
    /\ obs.pre.lane = LANES - 1
    /\ player.lane = LANES - 1
    /\ ~Played("move")
    /\ inputQueue = Tail(obs.pre.queue)

\* the simulation state a start command is to leave for the first Running tick
ResetAtTick ==
    /\ obs.pre.score = 0
    /\ obs.pre.frameCount = 0
    /\ obs.pre.lastSpawnFrame = 0
    /\ obs.pre.diffNum = DifficultyDiv
    /\ obs.pre.rocks = <<>>
    /\ obs.pre.hitTimer = 0
    /\ obs.pre.isHit = FALSE
    /\ obs.cl.lives = InitialLives
    /\ obs.pre.host.lives = InitialLives

\* C2: at most one life is lost per invulnerability window: while hitTimer > 0
\* the host's lives (rendered and queued) are at most 1 below the lives the
\* host had when the tick of the hit began, however many rocks that tick hit.
C2_OneLifePerWindow ==
    player.hitTimer > 0 =>
        /\ gsNext.lives >= winLives - 1
        /\ gs.lives >= winLives - 1

\* a tick hit two rocks and took one life
C2_Witness ==
    /\ IsTick /\ NumCalls(obs.calls, "hit") >= 2
    /\ player.hitTimer = HitWindow
    /\ gsNext.lives = winLives - 1

\* C3: once a hit has set hitTimer > 0 no further collision is registered
\* until hitTimer is 0 again: a tick registers at most one collision (one rock
\* consumed, one hit tone, one updateLives), and none while hitTimer stays > 0.
C3_OneCollisionPerTick ==
    IsTick =>
        /\ NumCalls(obs.calls, "hit") <= 1
        /\ NumCalls(obs.calls, "updateLives") <= 1
        /\ NumCalls(obs.calls, "onGameOver") <= 1
        /\ obs.pre.hitTimer > 1 =>
               (~Played("hit") /\ ~Played("updateLives") /\ ~Played("onGameOver"))

\* C4: in every run lives reaching 0 triggers exactly one onGameOver
\* invocation, with floor(rawScore / 10) of that tick.
C4_ExactlyOneGameOver ==
    /\ overCalls <= 1
    /\ (IsTick /\ Played("updateLives") /\ obs.cl.lives - 1 <= 0) => overCalls = 1
    /\ IsTick => \A i \in 1..Len(obs.calls) :
           obs.calls[i].fn = "onGameOver" => obs.calls[i].arg = Floor(score, ScoreEvery)

\* C5: after onGameOver has been invoked and until a restart command, no tick
\* advances the simulation state or calls setScore, updateLives or onGameOver.
C5_FrozenAfterGameOver ==
    (obs.op \in {"tick", "idleTick"} /\ obs.pre.overCalls > 0) =>
        /\ player.lane = obs.pre.lane
        /\ player.hitTimer = obs.pre.hitTimer
        /\ rocks = obs.pre.rocks
        /\ frameCount = obs.pre.frameCount
        /\ score = obs.pre.score
        /\ lastSpawnFrame = obs.pre.lastSpawnFrame
        /\ SelectSeq(obs.calls, IsHostCall) = <<>>

\* C6: a restart command in state Over performs the same reset as a start from
\* Idle: the first Running tick after it begins with the simulation state
\* reset, and the command emptied the input queue.
C6_RestartResets ==
    /\ (IsTick /\ obs.first = "restart") => ResetAtTick
    /\ (obs.op = "startGame" /\ obs.pre.host.isGameOver) => inputQueue = <<>>

\* C7: a start command in state Idle resets the simulation: the first Running
\* tick after it begins with the simulation state reset, lane 1, host score 0
\* and host lives 5, and the command emptied the input queue.
C7_StartResets ==
    /\ (IsTick /\ obs.first = "start") =>
           /\ ResetAtTick
           /\ obs.pre.lane = InitialLane
           /\ obs.pre.host.score = 0
           /\ obs.pre.hostNext.score = 0
    /\ (obs.op = "startGame" /\ ~obs.pre.host.isGameOver) => inputQueue = <<>>

\* the first Running tick after a start from Idle has run
C7_Witness ==
    /\ IsTick /\ obs.first = "start"
    /\ frameCount = 1
    /\ gs.isPlaying /\ ~gs.isGameOver

\* a Running tick removes exactly the head token and keeps the others in
\* their order; with an empty queue it removes nothing
FifoTick ==
    IsTick =>
        /\ inputQueue = (IF obs.pre.queue = <<>> THEN <<>> ELSE Tail(obs.pre.queue))
        /\ Consumed => player.lane = LaneAfter(Token, obs.pre.lane)

\* C8 (as stated): strict FIFO, one token per Running tick, and the token that
\* is k-th in the queue when a Running tick begins is consumed by the k-th
\* Running tick from then: no other step removes or reorders a token that was
\* in the queue when a Running tick began.
C8_KthTokenKthTick ==
    /\ FifoTick
    /\ ~IsTick =>
           /\ Len(inputQueue) >= obs.pre.seen
           /\ SubSeq(inputQueue, 1, obs.pre.seen) = SubSeq(obs.pre.queue, 1, obs.pre.seen)

\* C8 (amended): strict FIFO, one token per Running tick; a push appends
\* behind the waiting tokens, a render or an idle tick leaves the queue alone,
\* and only a start or restart command removes waiting tokens (all of them).
C8_FifoUntilStart ==
    /\ FifoTick
    /\ obs.op = "push" =>
           /\ Len(inputQueue) = Len(obs.pre.queue) + 1
           /\ SubSeq(inputQueue, 1, Len(obs.pre.queue)) = obs.pre.queue
    /\ obs.op \in {"render", "idleTick", "mount"} => inputQueue = obs.pre.queue
    /\ obs.op = "startGame" => inputQueue = <<>>

\* a tick consumed the head of two different waiting tokens and kept the other
C8_Witness ==
    /\ IsTick /\ Len(obs.pre.queue) = 2
    /\ obs.pre.queue[1] # obs.pre.queue[2]
    /\ inputQueue = <<obs.pre.queue[2]>>
    /\ seen = 1

\* C10: within one run the difficulty used by the loop never decreases from
\* one tick to the next, the spawn interval never increases, and the spawn
\* interval stays within 30..90.
C10_DifficultyMonotone ==
    (IsTick /\ obs.first = "none") =>
        /\ diffNum >= obs.pre.diffNum
        /\ SpawnRate(diffNum) <= SpawnRate(obs.pre.diffNum)
        /\ SpawnRate(diffNum) \in MinSpawnRate..BaseSpawnRate

\* k is max(MinSpawnRate, floor(BaseSpawnRate / d)) for the difficulty d = dn / 4000
IsInterval(k, dn) ==
    \/ /\ k = MinSpawnRate
       /\ BaseSpawnRate * DifficultyDiv < (MinSpawnRate + 1) * dn
    \/ /\ k > MinSpawnRate
       /\ k * dn <= BaseSpawnRate * DifficultyDiv
       /\ BaseSpawnRate * DifficultyDiv < (k + 1) * dn

Spawned == IsTick /\ used.spawned > 0
NewestRock == rocks[Len(rocks)]

C12_SpawnWhenDue ==
    IsTick =>
        /\ used.spawned <= 1
        /\ Spawned <=> frameCount - obs.pre.lastSpawnFrame >= used.spawnRate
        /\ IsInterval(used.spawnRate, diffNum)
        /\ lastSpawnFrame = (IF Spawned THEN frameCount ELSE obs.pre.lastSpawnFrame)
        /\ Spawned =>
               /\ Len(rocks) > 0
               /\ NewestRock.y = SpawnY * YScale + NewestRock.speed
        /\ (Spawned /\ obs.pre.lastSpawnFrame > 0) =>
               frameCount - obs.pre.lastSpawnFrame >= MinSpawnRate

\* a spawn at the shortest interval, at the first frame that is due
C12_Witness ==
    /\ Spawned /\ obs.pre.lastSpawnFrame > 0
    /\ used.spawnRate = MinSpawnRate
    /\ frameCount - obs.pre.lastSpawnFrame = used.spawnRate
    /\ lastSpawnFrame = frameCount

\* rocks the last tick removed that it did not hit
Pruned ==
    Len(obs.pre.rocks) + used.spawned - NumCalls(obs.calls, "hit") - Len(rocks)

\* C13: after the prune step of every Running tick, and so at the end of the
\* tick, no rock has y greater than canvas.height + 150.
C13_PrunedBelowMargin ==
    \A i \in 1..Len(rocks) : ~(rocks[i].y > (CanvasHeight + PruneMargin) * YScale)

\* a tick pruned a rock and kept another
C13_Witness ==
    /\ IsTick /\ Pruned > 0
    /\ Len(rocks) > 0

\* C14: every tick that registers a hit lowers the host's lives by exactly 1
\* from the host's current value, and the lives the loop captured are the
\* host's current lives: hits after elapsed windows give 5, 4, 3, 2.
C14_HitTakesOneLife ==
    (IsTick /\ Played("hit")) =>
        /\ obs.cl.lives = obs.pre.hostNext.lives
        /\ gsNext.lives = obs.pre.hostNext.lives - 1
        /\ \A i \in 1..Len(obs.calls) :
               obs.calls[i].fn = "updateLives" =>
                   obs.calls[i].arg = obs.pre.hostNext.lives - 1

\* the third hit of a game, after the windows of the first two have elapsed
C14_Witness ==
    /\ IsTick /\ Played("hit")
    /\ obs.pre.hitTimer = 0
    /\ obs.pre.hostNext.lives = InitialLives - 2
    /\ gsNext.lives = InitialLives - 3

\* C15: a hit is followed by 60 frames of immunity: in none of the next 60
\* Running ticks after a tick that registered a hit (the ticks that begin with
\* hitTimer in 1..60) is a collision evaluated, so none of them consumes a
\* rock or costs a life.
C15_SixtyTicksImmune ==
    (IsTick /\ obs.pre.hitTimer > 0) =>
        /\ ~Played("hit")
        /\ ~Played("updateLives")
        /\ gsNext.lives = obs.pre.hostNext.lives
        /\ Pruned >= 0

\* the type one uniform draw u (in units of 1 / TScale) selects
TypeOfDraw(u) ==
    IF u > CrystalAbove THEN "crystal"
    ELSE IF u > JaggedAbove THEN "jagged"
    ELSE "round"

\* C16: the type of a spawned rock is a function of one uniform draw u, the
\* first draw of the type: crystal if u > 0.8, otherwise jagged if u > 0.6,
\* otherwise round, whatever any other draw of the spawn is.
C16_TypeOfOneDraw ==
    Spawned => NewestRock.type = TypeOfDraw(used.t1)

\* C17: a Running tick invokes setScore exactly if the frame counter after its
\* increment is a multiple of 10, once, and passes floor(rawScore / 10) for
\* the raw score of that tick.
C17_ScoreEveryTenth ==
    IsTick =>
        /\ NumCalls(obs.calls, "setScore") = (IF frameCount % ScoreEvery = 0 THEN 1 ELSE 0)
        /\ \A i \in 1..Len(obs.calls) :
               obs.calls[i].fn = "setScore" =>
                   /\ obs.calls[i].arg * ScoreEvery <= score
                   /\ score < (obs.calls[i].arg + 1) * ScoreEvery

\* a tick published a raw score that is neither the frame counter nor a
\* multiple of 10
C17_Witness ==
    /\ IsTick /\ Played("setScore")
    /\ score # frameCount
    /\ score > ScoreEvery
    /\ score % ScoreEvery # 0

\* C19: in every reachable state 0 <= hitTimer <= 60 and isHit is true only
\* while hitTimer > 0; a Running tick that registers no hit lowers a positive
\* hitTimer by exactly 1 and leaves a zero hitTimer at 0.
C19_PlayerInvariant ==
    /\ player.hitTimer \in 0..HitWindow
    /\ player.isHit => player.hitTimer > 0
    /\ (IsTick /\ ~Played("hit")) =>
           player.hitTimer = (IF obs.pre.hitTimer > 0 THEN obs.pre.hitTimer - 1 ELSE 0)

\* the window of a hit has run down to 0 without another hit
C19_Witness ==
    /\ IsTick /\ ~Played("hit")
    /\ obs.pre.hitTimer = 1
    /\ player.hitTimer = 0
    /\ ~player.isHit
    /\ gsNext.lives < InitialLives

\* the step left the simulation state and the host state as it found them
SimulationUnchanged ==
    /\ player = [lane |-> obs.pre.lane, hitTimer |-> obs.pre.hitTimer,
                 isHit |-> obs.pre.isHit]
    /\ rocks = obs.pre.rocks
    /\ frameCount = obs.pre.frameCount
    /\ score = obs.pre.score
    /\ diffNum = obs.pre.diffNum
    /\ lastSpawnFrame = obs.pre.lastSpawnFrame
    /\ inputQueue = obs.pre.queue
    /\ gsNext = obs.pre.hostNext

\* C18: a tick that finds the canvas or its 2d context missing is skipped: it
\* changes no simulation state and publishes nothing; and the loop of a
\* running game keeps going: after the skipped tick an animation frame is
\* requested, or a render that requests one is due, so that a later tick runs
\* once the surface is back.
C18_SkippedTickKeepsLoop ==
    obs.op = "skipTick" =>
        /\ SimulationUnchanged
        /\ obs.calls = <<>>
        /\ (obs.cl.isPlaying /\ ~obs.cl.isGameOver) => (pending # <<>> \/ dirty)

\* C20: initAudio constructs at most one AudioContext over any sequence of
\* interactions and re-registrations of its listeners, audioCtxRef is set
\* exactly if one was constructed, and the playSound calls of a tick start no
\* tone while audioCtxRef is not set.
C20_OneAudioContext ==
    /\ made <= 1
    /\ audioCtx <=> made = 1
    /\ IsTick => used.tones = (IF audioCtx THEN NumCalls(obs.calls, "move")
                                                 + NumCalls(obs.calls, "hit")
                               ELSE 0)

\* a move tone was started on the one context, after more interactions than
\* one registration of the listeners allows
C20_Witness ==
    /\ IsTick /\ Played("move")
    /\ used.tones = 1
    /\ made = 1
    /\ budget.interactions > Cardinality(InteractEvents)

\* C21: generateMissionDebrief never fails towards its caller: it resolves
\* with a message/fact pair, and with the fixed static fallback pair when the
\* API key is missing, the service call or the parsing throws, or the
\* response has no text.
C21_AlwaysFallbackPair ==
    obs.op = "resolveDebrief" =>
        /\ lastDebrief.result.kind = "pair"
        /\ (~lastDebrief.hasKey \/ lastDebrief.outcome \in {"throws", "badJson", "empty"}) =>
               lastDebrief.result = StaticFallback

\* C22: between a game-over and the next restart generateMissionDebrief is
\* invoked exactly once, whatever host updates arrive while the game is over:
\* never more than one call, and one call once the effects of a game-over
\* render have run.
C22_OneDebriefPerGameOver ==
    /\ debriefCalls <= 1
    /\ (shown.isGameOver /\ ~effectsDue) => debriefCalls = 1

\* C23: project(x, y, W, H) returns scale = 0.4 + 0.6 * (y / H),
\* screenX = W/2 + (x - W/2) * scale and screenY = y; the scale is 0.4 at
\* y = 0 and 1 at y = H for every x, and x = W/2 is mapped to W/2 for every y.
\* (scale = scaleNum / den, screenX = xNum / (2 * den))
C23_ProjectScale ==
    proj.called =>
        /\ 10 * proj.h * proj.scaleNum = proj.den * (4 * proj.h + 6 * proj.y)
        /\ proj.xNum = proj.w * proj.den + (2 * proj.x - proj.w) * proj.scaleNum
        /\ proj.screenY = proj.y
        /\ proj.y = 0 => 10 * proj.scaleNum = 4 * proj.den
        /\ proj.y = proj.h => proj.scaleNum = proj.den
        /\ 2 * proj.x = proj.w => proj.xNum = proj.w * proj.den

\* a point off the centre line at y = 0 has been projected: scale 0.4 and
\* screenX = W/2 + 0.4 * (x - W/2)
C23_Witness ==
    /\ proj.called
    /\ proj.y = 0
    /\ 2 * proj.x # proj.w
    /\ 10 * proj.scaleNum = 4 * proj.den
    /\ 10 * proj.xNum = 10 * proj.w * proj.den + 4 * (2 * proj.x - proj.w) * proj.den

\* the timer the collision pass of the last tick began with
PassTimer == IF obs.pre.hitTimer > 0 THEN obs.pre.hitTimer - 1 ELSE 0

\* the rock is in the player's lane and, after its advance, less than 50 from
\* the player
Qualifies(r) ==
    /\ r.lane = player.lane
    /\ Abs(r.y + r.speed - PlayerY) < HitDistance * YScale

Qualifying == {i \in 1..Len(obs.pre.rocks) : Qualifies(obs.pre.rocks[i])}

\* C24: a rock is consumed by the collision pass of a tick only if hitTimer
\* was 0 when the pass began, the rock is in the player's lane and less than
\* 50 from the player; a rock in another lane or further away is never
\* consumed by a collision, and with hitTimer 0 and a qualifying rock a hit
\* is registered in that tick.
C24_OnlyQualifyingHit ==
    IsTick =>
        /\ Played("hit") => (PassTimer = 0 /\ Qualifying # {})
        /\ NumCalls(obs.calls, "hit") = (IF PassTimer = 0 THEN Cardinality(Qualifying) ELSE 0)
        /\ (PassTimer = 0 /\ Qualifying # {}) =>
               (Played("hit") /\ Played("updateLives") /\ player.hitTimer = HitWindow)
        /\ \A i \in 1..Len(obs.pre.rocks) :
               LET r == obs.pre.rocks[i]
               IN  (/\ ~(PassTimer = 0 /\ Qualifies(r))
                    /\ r.y + r.speed < (CanvasHeight + PruneMargin) * YScale)
                   => \E j \in 1..Len(rocks) : rocks[j] = [r EXCEPT !.y = @ + r.speed]
        /\ PassTimer = 0 =>
               \A j \in 1..Len(rocks) :
                   ~(/\ rocks[j].lane = player.lane
                     /\ Abs(rocks[j].y - PlayerY) < HitDistance * YScale)

\* a tick hit the rock in the player's lane and left a rock that is less than
\* 50 from the player in another lane
C24_Witness ==
    /\ IsTick /\ Played("hit")
    /\ PassTimer = 0
    /\ \E j \in 1..Len(rocks) :
           /\ rocks[j].lane # player.lane
           /\ Abs(rocks[j].y - PlayerY) < HitDistance * YScale

\* the rocks the tick began with that are at or over the prune limit after
\* their advance
OverLimit ==
    {i \in 1..Len(obs.pre.rocks) :
        obs.pre.rocks[i].y + obs.pre.rocks[i].speed >= (CanvasHeight + PruneMargin) * YScale}

\* C25: within one Running tick the steps take effect in the order input,
\* clock/score, spawn, advance, prune, collision: the collision pass uses the
\* lane reached by the token the tick consumed, the spawn check and the speed
\* of a spawned rock use the clock and the difficulty of the tick, a rock
\* spawned in the tick ends it at y = -100 + speed, the prune step tests the
\* advanced y, and a pruned rock is not hit.
C25_StepOrder ==
    IsTick =>
        /\ (Consumed /\ PassTimer = 0) =>
               (Played("hit") <=>
                    \E i \in 1..Len(obs.pre.rocks) :
                        /\ obs.pre.rocks[i].lane = LaneAfter(Token, obs.pre.lane)
                        /\ Abs(obs.pre.rocks[i].y + obs.pre.rocks[i].speed - PlayerY)
                               < HitDistance * YScale)
        /\ frameCount = obs.pre.frameCount + 1
        /\ Spawned <=> frameCount - obs.pre.lastSpawnFrame >= used.spawnRate
        /\ Spawned =>
               /\ NewestRock.y = SpawnY * YScale + NewestRock.speed
               /\ NewestRock.speed = used.u * diffNum
        /\ Pruned = Cardinality(OverLimit)
        /\ \A i \in OverLimit : ~Qualifies(obs.pre.rocks[i])

\* a tick consumed a token, moved the player into the lane of a rock and
\* registered the hit of that rock
C25_Witness ==
    /\ IsTick /\ Consumed
    /\ player.lane # obs.pre.lane
    /\ Played("hit")
    /\ \A i \in 1..Len(obs.pre.rocks) : obs.pre.rocks[i].lane # obs.pre.lane

\* lives within 0..5, 0 when the game is over and at least 1 while it runs
LivesConsistent(g) ==
    /\ g.lives \in 0..InitialLives
    /\ g.isGameOver => g.lives = 0
    /\ (g.isPlaying /\ ~g.isGameOver) => g.lives >= 1

\* C26: the host's lives are always in 0..5 and the game-over is reported
\* exactly when the lives reach 0: isGameOver implies lives = 0, and while
\* Running lives >= 1 (for the rendered host state and for the host state
\* with the queued updates applied).
C26_LivesAndGameOver ==
    /\ LivesConsistent(gs)
    /\ LivesConsistent(gsNext)
    /\ IsTick => (Played("onGameOver") <=> (Played("updateLives") /\ gsNext.lives = 0))

\* the tick that takes the last life reports the game-over
C26_Witness ==
    /\ IsTick /\ Played("onGameOver")
    /\ gs.lives = 1 /\ ~gs.isGameOver
    /\ gsNext.lives = 0 /\ gsNext.isGameOver

\* C27: at most one animation-frame request is pending at any time, whatever
\* the interleaving of ticks with the host state changes that re-create
\* update and re-run the scheduling effect: there are never two live chains.
C27_OnePendingRequest == Len(pending) <= 1

\* the render of a hit has cancelled the request of the tick and requested a
\* frame for the new update
C27_Witness ==
    /\ obs.op = "render"
    /\ gs.isPlaying /\ ~gs.isGameOver
    /\ gs.lives < InitialLives
    /\ frameCount > 0
    /\ pending = <<Closure(gs)>>

\* C28: while the simulation keeps Running every spawned rock is removed in
\* the end, by a collision or by the prune step: every tick adds its speed,
\* which is at least 2, to the y of every rock that stays active, lane and
\* speed never change, and an active rock has y < canvas.height + 150; so a
\* rock is active for at most (canvas.height + 250) / 2 ticks.
C28_RocksLeaveInTheEnd ==
    /\ \A j \in 1..Len(rocks) :
           /\ rocks[j].speed >= 2 * YScale
           /\ rocks[j].y >= SpawnY * YScale + rocks[j].speed
           /\ rocks[j].y < (CanvasHeight + PruneMargin) * YScale
    /\ IsTick =>
           \A j \in 1..Len(rocks) :
               \/ Spawned /\ j = Len(rocks)
               \/ \E i \in 1..Len(obs.pre.rocks) :
                      rocks[j] = [obs.pre.rocks[i] EXCEPT !.y = @ + obs.pre.rocks[i].speed]
    /\ IsTick => Len(rocks) = Len(obs.pre.rocks) + used.spawned
                               - Cardinality(OverLimit) - NumCalls(obs.calls, "hit")

\* a tick without a spawn removed the oldest rock at the prune limit and
\* advanced the others
C28_Witness ==
    /\ IsTick /\ ~Spawned
    /\ Len(obs.pre.rocks) >= 2
    /\ OverLimit = {1}
    /\ Len(rocks) = Len(obs.pre.rocks) - 1
    /\ rocks[1].y = obs.pre.rocks[2].y + obs.pre.rocks[2].speed

\* C29: when a game-over is reported the score the host holds equals the
\* finalScore passed to onGameOver, in the first run and in every run after a
\* restart; hence highScore >= score in every game-over state.
C29_ScoreIsFinalScore ==
    /\ (IsTick /\ Played("onGameOver")) =>
           \A i \in 1..Len(obs.calls) :
               obs.calls[i].fn = "onGameOver" => obs.calls[i].arg = gsNext.score
    /\ gs.isGameOver => gs.highScore >= gs.score
    /\ gsNext.isGameOver => gsNext.highScore >= gsNext.score

\* C30: highScore never decreases and equals the maximum finalScore reported
\* by any game-over so far (0 before the first); start and restart leave it
\* unchanged, and so does a repeated game-over notification with the same
\* score.  (gsNext is the host state with the queued updates applied; the
\* rendered state follows it.)
C30_HighScoreIsMaxFinal ==
    /\ gsNext.highScore = maxFinal
    /\ gsNext.highScore >= obs.pre.hostNext.highScore
    /\ gs.highScore <= gsNext.highScore
    /\ gs.highScore >= obs.pre.host.highScore
    /\ obs.op = "startGame" => gsNext.highScore = obs.pre.hostNext.highScore
    /\ IsTick =>
           \A i \in 1..Len(obs.calls) :
               obs.calls[i].fn = "onGameOver" =>
                   gsNext.highScore = Max(obs.pre.hostNext.highScore, obs.calls[i].arg)
    /\ (IsTick /\ ~Played("onGameOver")) => gsNext.highScore = obs.pre.hostNext.highScore

\* the game-over of a second game with a lower score than the first
C30_Witness ==
    /\ IsTick /\ Played("onGameOver")
    /\ obs.pre.hostNext.highScore > 0
    /\ \A i \in 1..Len(obs.calls) :
           obs.calls[i].fn = "onGameOver" => obs.calls[i].arg < obs.pre.hostNext.highScore
    /\ gsNext.highScore = obs.pre.hostNext.highScore

====
